---------------------------- MODULE Spec2Model ----------------------------
(***************************************************************************)
(* A model of compak's format classifier (src/src/format.rs), its error    *)
(* conversions (src/src/error.rs) and the archive handle and extraction    *)
(* dispatch (src/src/archive.rs).                                          *)
(*                                                                         *)
(* Bytes are integers 0..255, byte buffers are sequences of bytes, paths   *)
(* are sequences of one-character strings.  Option<ArchiveFormat> is a     *)
(* format tag or NoFormat; a Rust panic is the value Panic.                *)
(***************************************************************************)
EXTENDS Integers, Sequences, FiniteSets, TLC

VARIABLES
    data,       \* the bytes of the file at `path` / the buffer to classify
    path,       \* the path argument, a sequence of characters
    op,         \* the name of the last call
    res,        \* the value returned by the last call
    io,         \* what the file operations of the last call answered
    buf,        \* &buffer[..n]: the bytes the last detect_from_file read
    archive,    \* the Archive handle the last constructor call returned
    outDir,     \* TRUE when output_dir exists on disk
    ran,        \* the pipeline the last extraction was dispatched to
    fs,         \* the directory tree: resolved path -> node
    ex          \* the extractions in progress, one record per caller

vars == <<data, path, op, res, io, buf, archive, outDir, ran, fs, ex>>

\* The variables of the step-by-step extraction
walkvars == <<fs, ex>>
\* The variables of the classifier calls and the one-step extraction
callvars == <<data, path, op, res, io, buf, archive, outDir, ran>>

---------------------------------------------------------------------------
(* ArchiveFormat, format.rs:24-41 *)

ArchiveFormat == {"Zip", "TarGz", "TarXz", "TarBz2", "TarZst", "Tar", "SevenZ", "Rar"}

NoFormat == "None"      \* Option::None
Panic == "Panic"        \* the call aborted

---------------------------------------------------------------------------
(* The signatures, format.rs:126-141 *)

ZIP_MAGIC == <<80, 75, 3, 4>>                       \* 50 4B 03 04
GZIP_MAGIC == <<31, 139>>                           \* 1F 8B
XZ_MAGIC == <<253, 55, 122, 88, 90, 0>>             \* FD 37 7A 58 5A 00
BZIP2_MAGIC == <<66, 90, 104>>                      \* 42 5A 68
\* A mutant of ZSTD_MAGIC: the frame magic written in the other byte order.
ZSTD_MAGIC_swapped == <<253, 47, 181, 40>>
ZSTD_MAGIC == <<40, 181, 47, 253>>                  \* 28 B5 2F FD
TAR_MAGIC == <<117, 115, 116, 97, 114>>             \* "ustar"
SEVENZIP_MAGIC == <<55, 122, 188, 175, 39, 28>>     \* 37 7A BC AF 27 1C
RAR_MAGIC == <<82, 97, 114, 33, 26, 7, 0>>          \* 52 61 72 21 1A 07 00

\* data.len() >= 265 in the plain-container rule
TAR_MIN_LEN == 265
\* &data[257..262]: first index and one past the last index of the slice
TAR_SLICE_LO == 257
TAR_SLICE_HI == 262
\* let mut buffer = [0u8; 512]
BUFFER_SIZE == 512

\* A mutant of starts_with: the bytes are compared pairwise as far as both
\* sequences go, so that a buffer shorter than the needle can match.
starts_with_zipped(d, needle) ==
    \A i \in 1..Len(needle) : i <= Len(d) => d[i] = needle[i]

\* slice::starts_with as detect_from_bytes uses it: the needle fits and the
\* first needle.len() bytes are the needle.
starts_with(d, needle) ==
    /\ Len(needle) <= Len(d)
    /\ SubSeq(d, 1, Len(needle)) = needle

\* &d[lo..hi]: panics when hi is past the end of the slice.
SliceInBounds(d, lo, hi) == lo <= hi /\ hi <= Len(d)
Slice(d, lo, hi) == SubSeq(d, lo + 1, hi)

\* The last arm of detect_from_bytes: `data.len() >= 265 && &data[257..262] ==
\* TAR_MAGIC`; && evaluates the slice only when the length test passed.
\* Yields "Match", "NoMatch" or Panic (the slice is out of bounds).
tar_slice_rule(d) ==
    IF ~SliceInBounds(d, TAR_SLICE_LO, TAR_SLICE_HI) THEN Panic
    ELSE IF Slice(d, TAR_SLICE_LO, TAR_SLICE_HI) = TAR_MAGIC THEN "Match"
    ELSE "NoMatch"

\* A mutant of tar_rule: the length test is dropped.
tar_rule_no_len(d) == tar_slice_rule(d)

tar_rule(d) ==
    IF Len(d) >= TAR_MIN_LEN THEN tar_slice_rule(d) ELSE "NoMatch"

\* A mutant of detect_from_bytes: the plain-container rule is tried first.
detect_from_bytes_tar_first(d) ==
    LET t == tar_rule(d) IN
    IF t = Panic THEN Panic
    ELSE IF t = "Match" THEN "Tar"
    ELSE IF starts_with(d, ZIP_MAGIC) THEN "Zip"
    ELSE IF starts_with(d, GZIP_MAGIC) THEN "TarGz"
    ELSE IF starts_with(d, XZ_MAGIC) THEN "TarXz"
    ELSE IF starts_with(d, BZIP2_MAGIC) THEN "TarBz2"
    ELSE IF starts_with(d, ZSTD_MAGIC) THEN "TarZst"
    ELSE IF starts_with(d, SEVENZIP_MAGIC) THEN "SevenZ"
    ELSE IF starts_with(d, RAR_MAGIC) THEN "Rar"
    ELSE NoFormat

\* fn detect_from_bytes(data: &[u8]) -> Option<ArchiveFormat>
detect_from_bytes(d) ==
    IF starts_with(d, ZIP_MAGIC) THEN "Zip"
    ELSE IF starts_with(d, GZIP_MAGIC) THEN "TarGz"
    ELSE IF starts_with(d, XZ_MAGIC) THEN "TarXz"
    ELSE IF starts_with(d, BZIP2_MAGIC) THEN "TarBz2"
    ELSE IF starts_with(d, ZSTD_MAGIC) THEN "TarZst"
    ELSE IF starts_with(d, SEVENZIP_MAGIC) THEN "SevenZ"
    ELSE IF starts_with(d, RAR_MAGIC) THEN "Rar"
    ELSE LET t == tar_rule(d) IN
         IF t = Panic THEN Panic
         ELSE IF t = "Match" THEN "Tar"
         ELSE NoFormat


---------------------------------------------------------------------------
(* Extension classification, format.rs:214-238 *)

UpperLetters == <<"A", "B", "C", "D", "E", "F", "G", "H", "I", "J", "K", "L", "M",
                  "N", "O", "P", "Q", "R", "S", "T", "U", "V", "W", "X", "Y", "Z">>
LowerLetters == <<"a", "b", "c", "d", "e", "f", "g", "h", "i", "j", "k", "l", "m",
                  "n", "o", "p", "q", "r", "s", "t", "u", "v", "w", "x", "y", "z">>

\* char lowercasing: an upper-case letter maps to its lower-case letter, every
\* other character to itself.
char_to_lowercase(c) ==
    IF \E i \in 1..Len(UpperLetters) : UpperLetters[i] = c
    THEN LowerLetters[CHOOSE i \in 1..Len(UpperLetters) : UpperLetters[i] = c]
    ELSE c

\* A mutant of to_lowercase: the path is matched as it is written.
to_lowercase_identity(s) == s

\* str::to_lowercase, character by character
to_lowercase(s) == [i \in 1..Len(s) |-> char_to_lowercase(s[i])]

\* str::ends_with
ends_with(s, suffix) ==
    /\ Len(suffix) <= Len(s)
    /\ SubSeq(s, Len(s) - Len(suffix) + 1, Len(s)) = suffix

\* The suffix literals of detect_from_extension
EXT_TAR_GZ == <<".", "t", "a", "r", ".", "g", "z">>
EXT_TGZ == <<".", "t", "g", "z">>
EXT_TAR_XZ == <<".", "t", "a", "r", ".", "x", "z">>
EXT_TXZ == <<".", "t", "x", "z">>
EXT_TAR_BZ2 == <<".", "t", "a", "r", ".", "b", "z", "2">>
EXT_TBZ2 == <<".", "t", "b", "z", "2">>
EXT_TAR_ZST == <<".", "t", "a", "r", ".", "z", "s", "t">>
EXT_TAR == <<".", "t", "a", "r">>
EXT_ZIP == <<".", "z", "i", "p">>
EXT_7Z == <<".", "7", "z">>
EXT_RAR == <<".", "r", "a", "r">>

---------------------------------------------------------------------------
(* ArchiveError, error.rs:38-120, and Result values *)

NoField == "-"      \* a field the variant does not have

\* One record shape for every variant; a variant's absent fields are NoField.
MkError(variant, context, kind, message, p, feature) ==
    [variant |-> variant, context |-> context, kind |-> kind,
     message |-> message, path |-> p, feature |-> feature]

NoError == MkError(NoField, NoField, NoField, NoField, NoField, NoField)

\* Result<ArchiveFormat, ArchiveError> / Result<(), ArchiveError>
Ok(v) == [tag |-> "Ok", value |-> v, err |-> NoError]
Err(e) == [tag |-> "Err", value |-> NoFormat, err |-> e]
Panicked == [tag |-> Panic, value |-> NoFormat, err |-> NoError]
NoResult == [tag |-> "NoCall", value |-> NoFormat, err |-> NoError]
Unit == "()"

\* ArchiveError::unsupported_static, error.rs:425-429
unsupported_static(feature) ==
    MkError("Unsupported", NoField, NoField, NoField, NoField, feature)

\* std::io::Error as the conversions read it: kind() and to_string()
IoErrorKind == {"NotFound", "PermissionDenied", "AlreadyExists", "Other"}
IoError(kind) == [kind |-> kind, text |-> "os error"]

\* ArchiveError::io_from_error, error.rs:277-293
io_from_error(context, source) ==
    LET kind == source.kind
        msg  == IF kind = "NotFound" THEN "file not found"
                ELSE IF kind = "PermissionDenied" THEN "permission denied"
                ELSE IF kind = "AlreadyExists" THEN "file already exists"
                ELSE source.text
    IN MkError("Io", context, kind, msg, NoField, NoField)

\* impl From<io::Error> for ArchiveError, error.rs:487-508: what `?` applies to
\* an io::Error.
from_io_error(e) ==
    IF e.kind = "NotFound"
    THEN MkError("NotFound", NoField, NoField, NoField, "unknown", NoField)
    ELSE IF e.kind = "PermissionDenied"
    THEN MkError("PermissionDenied", NoField, NoField, NoField, "unknown", NoField)
    ELSE IF e.kind = "AlreadyExists"
    THEN MkError("AlreadyExists", NoField, NoField, NoField, "unknown", NoField)
    ELSE io_from_error("I/O operation", e)

\* str::contains
contains(s, needle) ==
    \E i \in 0..(Len(s) - Len(needle)) : SubSeq(s, i + 1, i + Len(needle)) = needle

\* A mutant of detect_from_extension: the plain container is recognised first,
\* by ".tar" anywhere in the path.
detect_from_extension_bare_first(p) ==
    LET path_str == to_lowercase(p) IN
    IF contains(path_str, EXT_TAR) THEN Ok("Tar")
    ELSE IF ends_with(path_str, EXT_TAR_GZ) \/ ends_with(path_str, EXT_TGZ) THEN Ok("TarGz")
    ELSE IF ends_with(path_str, EXT_TAR_XZ) \/ ends_with(path_str, EXT_TXZ) THEN Ok("TarXz")
    ELSE IF ends_with(path_str, EXT_TAR_BZ2) \/ ends_with(path_str, EXT_TBZ2) THEN Ok("TarBz2")
    ELSE IF ends_with(path_str, EXT_TAR_ZST) THEN Ok("TarZst")
    ELSE IF ends_with(path_str, EXT_ZIP) THEN Ok("Zip")
    ELSE IF ends_with(path_str, EXT_7Z) THEN Ok("SevenZ")
    ELSE IF ends_with(path_str, EXT_RAR) THEN Ok("Rar")
    ELSE Err(unsupported_static("format"))

\* A mutant of detect_from_extension: a path with no known suffix is taken to
\* be a ZIP archive.
detect_from_extension_default(p) ==
    LET path_str == to_lowercase(p) IN
    IF ends_with(path_str, EXT_TAR_GZ) \/ ends_with(path_str, EXT_TGZ) THEN Ok("TarGz")
    ELSE IF ends_with(path_str, EXT_TAR_XZ) \/ ends_with(path_str, EXT_TXZ) THEN Ok("TarXz")
    ELSE IF ends_with(path_str, EXT_TAR_BZ2) \/ ends_with(path_str, EXT_TBZ2) THEN Ok("TarBz2")
    ELSE IF ends_with(path_str, EXT_TAR_ZST) THEN Ok("TarZst")
    ELSE IF ends_with(path_str, EXT_TAR) THEN Ok("Tar")
    ELSE IF ends_with(path_str, EXT_ZIP) THEN Ok("Zip")
    ELSE IF ends_with(path_str, EXT_7Z) THEN Ok("SevenZ")
    ELSE IF ends_with(path_str, EXT_RAR) THEN Ok("Rar")
    ELSE Ok("Zip")

\* pub(crate) fn detect_from_extension(path) -> Result<ArchiveFormat, ArchiveError>
detect_from_extension(p) ==
    LET path_str == to_lowercase(p) IN
    IF ends_with(path_str, EXT_TAR_GZ) \/ ends_with(path_str, EXT_TGZ) THEN Ok("TarGz")
    ELSE IF ends_with(path_str, EXT_TAR_XZ) \/ ends_with(path_str, EXT_TXZ) THEN Ok("TarXz")
    ELSE IF ends_with(path_str, EXT_TAR_BZ2) \/ ends_with(path_str, EXT_TBZ2) THEN Ok("TarBz2")
    ELSE IF ends_with(path_str, EXT_TAR_ZST) THEN Ok("TarZst")
    ELSE IF ends_with(path_str, EXT_TAR) THEN Ok("Tar")
    ELSE IF ends_with(path_str, EXT_ZIP) THEN Ok("Zip")
    ELSE IF ends_with(path_str, EXT_7Z) THEN Ok("SevenZ")
    ELSE IF ends_with(path_str, EXT_RAR) THEN Ok("Rar")
    ELSE Err(unsupported_static("format"))


---------------------------------------------------------------------------
(* File classification, format.rs:274-284 *)

\* Option<ArchiveFormat> as a returned value
AsOption(f) ==
    IF f = Panic THEN Panicked
    ELSE IF f = NoFormat THEN [tag |-> "None", value |-> NoFormat, err |-> NoError]
    ELSE [tag |-> "Some", value |-> f, err |-> NoError]

\* Result::ok, Option::or_else, Option::ok_or as detect_from_file chains them
result_ok(r) == IF r.tag = "Ok" THEN r.value ELSE NoFormat
or_else(opt, alt) == IF opt # NoFormat THEN opt ELSE alt
ok_or(opt, e) == IF opt # NoFormat THEN Ok(opt) ELSE Err(e)

IoOutcome == {"Ok"} \cup IoErrorKind

Min(a, b) == IF a <= b THEN a ELSE b

\* file.read(&mut buffer) on a 512-byte buffer: 0 only at end of file, else any
\* count from 1 up to what is there and fits.  ShortReads are the short counts
\* the model tries besides the full one.
ShortReads == {1, 3, 264}
ReadCounts(d) ==
    LET full == Min(BUFFER_SIZE, Len(d)) IN
    {full} \cup {k \in ShortReads : k < full}

\* A mutant of detect_from_file: the extension is tried before the content.
detect_from_file_ext_first(p, d, open, read, n) ==
    IF open # "Ok" THEN Err(from_io_error(IoError(open)))
    ELSE IF read # "Ok" THEN Err(from_io_error(IoError(read)))
    ELSE LET content == detect_from_bytes(SubSeq(d, 1, n)) IN
         IF content = Panic THEN Panicked
         ELSE ok_or(or_else(result_ok(detect_from_extension(p)), content),
                    unsupported_static("format"))

\* pub(crate) async fn detect_from_file(path): `open` and `read` are what
\* File::open and file.read answered, n the count the read returned.
detect_from_file(p, d, open, read, n) ==
    IF open # "Ok" THEN Err(from_io_error(IoError(open)))
    ELSE IF read # "Ok" THEN Err(from_io_error(IoError(read)))
    ELSE LET content == detect_from_bytes(SubSeq(d, 1, n)) IN
         IF content = Panic THEN Panicked
         ELSE ok_or(or_else(content, result_ok(detect_from_extension(p))),
                    unsupported_static("format"))

---------------------------------------------------------------------------
(* The functions of a tag, format.rs:77-123 *)

\* A mutant of extension: the gzip container takes the bare "gz".
extension_gz_bare(format) ==
    CASE format = "Zip" -> <<"z", "i", "p">>
      [] format = "Tar" -> <<"t", "a", "r">>
      [] format = "TarGz" -> <<"g", "z">>
      [] format = "TarBz2" -> <<"t", "a", "r", ".", "b", "z", "2">>
      [] format = "TarXz" -> <<"t", "a", "r", ".", "x", "z">>
      [] format = "TarZst" -> <<"t", "a", "r", ".", "z", "s", "t">>
      [] format = "SevenZ" -> <<"7", "z">>
      [] format = "Rar" -> <<"r", "a", "r">>

\* pub fn extension(&self) -> &'static str
extension(format) ==
    CASE format = "Zip" -> <<"z", "i", "p">>
      [] format = "Tar" -> <<"t", "a", "r">>
      [] format = "TarGz" -> <<"t", "a", "r", ".", "g", "z">>
      [] format = "TarBz2" -> <<"t", "a", "r", ".", "b", "z", "2">>
      [] format = "TarXz" -> <<"t", "a", "r", ".", "x", "z">>
      [] format = "TarZst" -> <<"t", "a", "r", ".", "z", "s", "t">>
      [] format = "SevenZ" -> <<"7", "z">>
      [] format = "Rar" -> <<"r", "a", "r">>

\* pub fn mime_type(&self) -> &'static str: todo!() panics.
mime_type(format) ==
    CASE format = "Zip" -> Ok("application/zip")
      [] format = "TarGz" -> Ok("application/gzip")
      [] format = "TarXz" -> Ok("application/x-xz")
      [] format = "TarBz2" -> Ok("application/x-bzip2")
      [] format = "TarZst" -> Panicked
      [] format = "Tar" -> Panicked
      [] format = "SevenZ" -> Panicked
      [] format = "Rar" -> Panicked

---------------------------------------------------------------------------
(* Archive, archive.rs:30-158, and the dispatch, archive.rs:222-248 *)

NoArchive == [path |-> <<>>, format |-> NoFormat]
NoPipeline == [decoder |-> NoField, unpack |-> NoField]
NoIo == [open |-> NoField, read |-> NoField, mkdir |-> NoField, pipeline |-> NoField]

\* The handle a constructor returns for classification result r
Handle(p, r) == IF r.tag = "Ok" THEN [path |-> p, format |-> r.value] ELSE NoArchive

\* The arms of `match format` in extract_archive_with_format
MatchArms == {"Zip", "TarGz", "TarXz", "TarBz2", "TarZst", "Tar", "SevenZ"}

\* A mutant of dispatch: the gzip and xz decoders change places.
dispatch_swapped(format) ==
    CASE format = "Zip" -> [decoder |-> "none", unpack |-> "extract_zip"]
      [] format = "TarGz" -> [decoder |-> "XzDecoder", unpack |-> "extract_tar"]
      [] format = "TarXz" -> [decoder |-> "GzDecoder", unpack |-> "extract_tar"]
      [] format = "TarBz2" -> [decoder |-> "BzDecoder", unpack |-> "extract_tar"]
      [] format = "TarZst" -> [decoder |-> "zstd::Decoder", unpack |-> "extract_tar"]
      [] format = "Tar" -> [decoder |-> "none", unpack |-> "extract_tar"]
      [] format = "SevenZ" -> [decoder |-> "none", unpack |-> "extract_7z"]
      [] OTHER -> [decoder |-> NoField, unpack |-> NoField]

\* The function each arm calls and the decoder it passes
dispatch(format) ==
    CASE format = "Zip" -> [decoder |-> "none", unpack |-> "extract_zip"]
      [] format = "TarGz" -> [decoder |-> "GzDecoder", unpack |-> "extract_tar"]
      [] format = "TarXz" -> [decoder |-> "XzDecoder", unpack |-> "extract_tar"]
      [] format = "TarBz2" -> [decoder |-> "BzDecoder", unpack |-> "extract_tar"]
      [] format = "TarZst" -> [decoder |-> "zstd::Decoder", unpack |-> "extract_tar"]
      [] format = "Tar" -> [decoder |-> "none", unpack |-> "extract_tar"]
      [] format = "SevenZ" -> [decoder |-> "none", unpack |-> "extract_7z"]
      [] OTHER -> NoPipeline

\* impl From<sevenz_rust2::Error> for ArchiveError, error.rs:479-485
from_sevenz_error ==
    MkError("Custom", NoField, NoField, "7-Zip error", NoField, NoField)

\* What a pipeline returns when its file operations answer `outcome`
pipeline_result(pl, outcome) ==
    IF outcome = "Ok" THEN Ok(Unit)
    ELSE IF pl.unpack = "extract_7z" THEN Err(from_sevenz_error)
    ELSE Err(from_io_error(IoError(outcome)))

\* No arm of the match covers the tag: the match yields no Result at all.
NoArm == [tag |-> "NoArm", value |-> NoFormat, err |-> NoError]

\* fn extract_archive_with_format(path, output_dir, format): `exists` is
\* output_dir.exists(), `mkdir` what create_dir_all answered, `outcome` what the
\* pipeline's file operations answered.  Yields the returned value, whether
\* output_dir exists afterwards, and the pipeline that ran.
extract_archive_with_format(format, exists, mkdir, outcome) ==
    IF ~exists /\ mkdir # "Ok"
    THEN [res |-> Err(from_io_error(IoError(mkdir))), outDir |-> FALSE,
          ran |-> NoPipeline]
    ELSE IF format \in MatchArms
    THEN [res |-> pipeline_result(dispatch(format), outcome), outDir |-> TRUE,
          ran |-> dispatch(format)]
    ELSE [res |-> NoArm, outDir |-> TRUE, ran |-> NoPipeline]

---------------------------------------------------------------------------
(* Paths and the directory tree that extraction writes, archive.rs:222-342 *)

\* A path is a sequence of components, a component a sequence of characters;
\* an entry name is a sequence of characters.

\* std::path::Path::components on an entry name: the name split at '/', empty
\* components (a leading, doubled or trailing '/') dropped.
RECURSIVE SplitName(_, _, _)
SplitName(name, cur, acc) ==
    IF name = <<>> THEN (IF cur = <<>> THEN acc ELSE Append(acc, cur))
    ELSE IF Head(name) = "/"
    THEN SplitName(Tail(name), <<>>, IF cur = <<>> THEN acc ELSE Append(acc, cur))
    ELSE SplitName(Tail(name), Append(cur, Head(name)), acc)

Components(name) == SplitName(name, <<>>, <<>>)

\* Path::is_absolute of an entry name
has_root(name) == Len(name) > 0 /\ name[1] = "/"

\* A mutant of path_join: a name that escapes the base (an absolute name, or
\* one with a ".." component) is refused, the base taken in its place.
path_join_enclosed(base, name) ==
    IF has_root(name) \/ \E k \in 1..Len(Components(name)) :
                             Components(name)[k] = <<".", ".">>
    THEN base
    ELSE base \o Components(name)

\* output_dir.join(file.name()): an absolute name replaces the base.
path_join(base, name) ==
    IF has_root(name) THEN Components(name) ELSE base \o Components(name)

\* Path::parent: the path without its last component
path_parent(p) == SubSeq(p, 1, Len(p) - 1)

\* What the operating system makes of a path: ".." steps to the parent (the
\* root is its own parent).  The directories a ".." steps out of exist in
\* every path the model resolves.
RECURSIVE ResolveFrom(_, _)
ResolveFrom(p, acc) ==
    IF p = <<>> THEN acc
    ELSE IF Head(p) = <<".", ".">>
    THEN ResolveFrom(Tail(p), SubSeq(acc, 1, Len(acc) - 1))
    ELSE ResolveFrom(Tail(p), Append(acc, Head(p)))

Resolve(p) == ResolveFrom(p, <<>>)

\* The nodes of the tree: who made the node (0: it was there before), for
\* which entry (0: for none), and whether a file holds the whole content.
DirNode(by, idx) == [kind |-> "dir", by |-> by, idx |-> idx, full |-> TRUE]
FileNode(by, idx, full) == [kind |-> "file", by |-> by, idx |-> idx, full |-> full]

ROOT == <<>>
RootOnly == (ROOT :> DirNode(0, 0))

IsDir(f, t) == t \in DOMAIN f /\ f[t].kind = "dir"
IsFile(f, t) == t \in DOMAIN f /\ f[t].kind = "file"

\* A mutant of path_exists: every path is taken to be there.
path_exists_always(f, p) == TRUE

\* Path::exists
path_exists(f, p) == Resolve(p) \in DOMAIN f

Prefixes(t) == {SubSeq(t, 1, k) : k \in 0..Len(t)}

\* A mutant of WithNode: what does not lie on the way to t is dropped.
WithNode_alone(f, t, n) ==
    [x \in (DOMAIN f \cap Prefixes(t)) \cup {t} |-> IF x = t THEN n ELSE f[x]]

\* f with node n at t, replacing what is there
WithNode(f, t, n) == [x \in DOMAIN f \cup {t} |-> IF x = t THEN n ELSE f[x]]

\* A mutant of create_dir_all: a directory that is there already is an error,
\* as std::fs::create_dir has it.
create_dir_all_strict(f, p, by, idx) ==
    LET t == Resolve(p) IN
    IF t \in DOMAIN f THEN [fs |-> f, err |-> "AlreadyExists"]
    ELSE [fs |-> [x \in DOMAIN f \cup Prefixes(t) |->
                     IF x \in DOMAIN f THEN f[x] ELSE DirNode(by, idx)],
          err |-> "Ok"]

\* std::fs::create_dir_all(p): every missing directory on the way to p is
\* made; a file on the way (NotADirectory) or at p (AlreadyExists) fails the
\* call before anything is made.  Yields the tree and "Ok" or the error kind.
create_dir_all(f, p, by, idx) ==
    LET t == Resolve(p)
        blocked == {q \in Prefixes(t) : IsFile(f, q)}
    IN
    IF blocked # {}
    THEN [fs |-> f, err |-> IF t \in blocked THEN "AlreadyExists" ELSE "Other"]
    ELSE [fs |-> [x \in DOMAIN f \cup Prefixes(t) |->
                     IF x \in DOMAIN f THEN f[x] ELSE DirNode(by, idx)],
          err |-> "Ok"]

\* std::fs::File::create(p): the parent must be a directory, p must not be
\* one; the file is made, or emptied when it is there already.
file_create(f, p, by, idx) ==
    LET t == Resolve(p) IN
    IF t = ROOT \/ IsDir(f, t) THEN [fs |-> f, err |-> "Other"]
    ELSE IF path_parent(t) \notin DOMAIN f THEN [fs |-> f, err |-> "NotFound"]
    ELSE IF IsFile(f, path_parent(t)) THEN [fs |-> f, err |-> "Other"]
    ELSE [fs |-> WithNode(f, t, FileNode(by, idx, FALSE)), err |-> "Ok"]

\* io::copy(&mut file, &mut out_file) run to its end: the file made for the
\* entry holds the entry's whole content.
copy_all(f, p, by, idx) ==
    LET t == Resolve(p) IN
    IF IsFile(f, t) THEN WithNode(f, t, FileNode(by, idx, TRUE)) ELSE f

\* A mutant of is_dir_marker: every entry is taken to be a file.
is_dir_marker_never(name) == FALSE

\* file.name().ends_with('/')
is_dir_marker(name) == ends_with(name, <<"/">>)

\* impl From<zip::result::ZipError> for ArchiveError, error.rs:447-477, the
\* arm of ZipError::Io: what `?` applies when the archive reader fails to read
from_zip_error(kind) == io_from_error("ZIP I/O operation", IoError(kind))

\* The callers of the step-by-step extraction
Procs == {1, 2}

\* One call of extract_archive_with_format in progress: where the caller
\* stands, the arguments (the archive given by its entry names in index
\* order), the loop index, the returned value, the failures the operating
\* system may answer on top of those the tree dictates, and whether it
\* answered one.
Call(format, entries, out, env) ==
    [pc |-> "start", format |-> format, entries |-> entries, out |-> out,
     i |-> 0, res |-> NoResult, env |-> env, fault |-> FALSE]

\* A caller that extracts nothing
Idle == [Call(NoFormat, <<>>, ROOT, {}) EXCEPT !.pc = "idle"]

NoWalk ==
    /\ fs = RootOnly
    /\ ex = [p \in Procs |-> Idle]

---------------------------------------------------------------------------
(* The inputs *)

\* Longest run of arbitrary bytes put after a signature prefix
MaxTail == 1
\* Longest file stem put before a suffix
MaxStem == 1

\* The padding of a generated buffer: a byte that is in no signature
FillPattern == <<170>>
FILL == FillPattern[1]

PrefixMagics == {ZIP_MAGIC, GZIP_MAGIC, XZ_MAGIC, BZIP2_MAGIC, ZSTD_MAGIC,
                 SEVENZIP_MAGIC, RAR_MAGIC}

SeqsUpTo(S, n) == UNION {[1..k -> S] : k \in 0..n}

\* Trailing bytes: a byte of no signature, the last byte of two signatures,
\* the last byte of ZIP's, the first byte of GZIP's
TailBytes == {FILL, 0, 4, 31}
Tails == SeqsUpTo(TailBytes, MaxTail)

\* Every prefix of every prefix signature (the whole signature included)
\* followed by a tail
Heads ==
    UNION {{SubSeq(m, 1, k) \o t : k \in 0..Len(m), t \in Tails} : m \in PrefixMagics}

\* What is written around offset 257: "ustar" in place, one byte early, one
\* byte late, a near miss in place, or nothing
TarFields ==
    {[at |-> 257, bytes |-> TAR_MAGIC], [at |-> 256, bytes |-> TAR_MAGIC],
     [at |-> 258, bytes |-> TAR_MAGIC], [at |-> 257, bytes |-> <<117, 115, 116, 97, 122>>],
     [at |-> 257, bytes |-> <<>>]}

\* Buffer lengths around the plain-container rule's limits, and a full buffer
TarLens == {261, 262, 263, 264, 265, 266, 512}

\* The buffer of length n that starts with h, holds f.bytes from 0-based
\* offset f.at where that fits, and FILL everywhere else
MkBuf(h, n, f) ==
    [i \in 1..n |->
        IF i <= Len(h) THEN h[i]
        ELSE IF i > f.at /\ i <= f.at + Len(f.bytes) THEN f.bytes[i - f.at]
        ELSE FILL]

Buffers ==
    Heads \cup {MkBuf(h, n, f) : h \in Heads, n \in TarLens, f \in TarFields}

char_to_uppercase(c) ==
    IF \E i \in 1..Len(LowerLetters) : LowerLetters[i] = c
    THEN UpperLetters[CHOOSE i \in 1..Len(LowerLetters) : LowerLetters[i] = c]
    ELSE c

\* s with the characters at the positions in `ups` upper-cased
UpperAt(s, ups) ==
    [i \in 1..Len(s) |-> IF i \in ups THEN char_to_uppercase(s[i]) ELSE s[i]]

KnownSuffixes == {EXT_TAR_GZ, EXT_TGZ, EXT_TAR_XZ, EXT_TXZ, EXT_TAR_BZ2, EXT_TBZ2,
                  EXT_TAR_ZST, EXT_TAR, EXT_ZIP, EXT_7Z, EXT_RAR}

\* Endings that are no known suffix: another extension, a known suffix cut
\* short or run on, a bare compression extension, no dot, nothing
OtherSuffixes ==
    {<<".", "x", "y", "z">>, <<".", "g", "z">>, <<"t", "a", "r">>,
     <<".", "t", "a", "r", ".">>, <<".", "t", "a">>, <<".", "z", "i", "p", "x">>,
     <<".", "t", "a", "r", ".", "g">>, <<".", "z", "s", "t">>, <<>>}

StemChars == {"a", "Z", "."}
Stems == SeqsUpTo(StemChars, MaxStem)

\* A suffix as written, all upper-case, or with one character upper-cased
Casings(s) ==
    {s, UpperAt(s, 1..Len(s))} \cup {UpperAt(s, {i}) : i \in 1..Len(s)}

Paths ==
    {st \o c : st \in Stems,
               c \in UNION {Casings(s) : s \in KnownSuffixes \cup OtherSuffixes}}

\* The files of the file-classification runs: every signature whole and one
\* byte short, alone, in a 265-byte file with and without "ustar", and in a
\* file longer than the buffer
FileHeads ==
    UNION {{SubSeq(m, 1, k) : k \in {0, Len(m) - 1, Len(m)}} : m \in PrefixMagics}
FileContents ==
    FileHeads
    \cup {MkBuf(h, n, f) : h \in {<<>>, GZIP_MAGIC, RAR_MAGIC}, n \in {264, 265, 600},
                           f \in {[at |-> 257, bytes |-> TAR_MAGIC],
                                  [at |-> 257, bytes |-> <<>>]}}

FilePaths ==
    {<<"a">> \o s : s \in {EXT_ZIP, UpperAt(EXT_TAR_GZ, 1..7), EXT_TAR, EXT_RAR,
                           EXT_7Z, <<".", "x", "y", "z">>, <<>>}}

---------------------------------------------------------------------------
(* The calls *)

\* op, res, io, buf and ran describe the last call; every call sets them all.

DetectFromBytes ==
    /\ op' = "detect_from_bytes"
    /\ res' = AsOption(detect_from_bytes(data))
    /\ io' = NoIo
    /\ buf' = <<>>
    /\ ran' = NoPipeline
    /\ UNCHANGED <<data, path, archive, outDir>>
    /\ UNCHANGED walkvars

DetectFromExtension ==
    /\ op' = "detect_from_extension"
    /\ res' = detect_from_extension(path)
    /\ io' = NoIo
    /\ buf' = <<>>
    /\ ran' = NoPipeline
    /\ UNCHANGED <<data, path, archive, outDir>>
    /\ UNCHANGED walkvars

\* The file operations of detect_from_file: the open fails, or the read fails,
\* or both succeed and the read returns n bytes.
FileAnswers(d) ==
    {[open |-> e, read |-> NoField, n |-> 0] : e \in IoErrorKind}
    \cup {[open |-> "Ok", read |-> e, n |-> 0] : e \in IoErrorKind}
    \cup {[open |-> "Ok", read |-> "Ok", n |-> k] : k \in ReadCounts(d)}

DetectFromFile ==
    \E a \in FileAnswers(data) :
        /\ op' = "detect_from_file"
        /\ res' = detect_from_file(path, data, a.open, a.read, a.n)
        /\ io' = [NoIo EXCEPT !.open = a.open, !.read = a.read]
        /\ buf' = SubSeq(data, 1, a.n)
        /\ ran' = NoPipeline
        /\ UNCHANGED <<data, path, archive, outDir>>
        /\ UNCHANGED walkvars

\* Archive::open, archive.rs:68-76
ArchiveOpen ==
    \E a \in FileAnswers(data) :
        LET format == detect_from_file(path, data, a.open, a.read, a.n) IN
        /\ op' = "Archive::open"
        /\ res' = format
        /\ archive' = Handle(path, format)
        /\ io' = [NoIo EXCEPT !.open = a.open, !.read = a.read]
        /\ buf' = SubSeq(data, 1, a.n)
        /\ ran' = NoPipeline
        /\ UNCHANGED <<data, path, outDir>>
        /\ UNCHANGED walkvars

\* Archive::new, archive.rs:109-117
ArchiveNew ==
    LET format == detect_from_extension(path) IN
    /\ op' = "Archive::new"
    /\ res' = format
    /\ archive' = Handle(path, format)
    /\ io' = NoIo
    /\ buf' = <<>>
    /\ ran' = NoPipeline
    /\ UNCHANGED <<data, path, outDir>>
    /\ UNCHANGED walkvars

\* Archive::extract_to, archive.rs:154-157, on the handle held
ExtractTo ==
    /\ archive # NoArchive
    /\ \E mkdir \in IoOutcome, outcome \in IoOutcome :
        LET r == extract_archive_with_format(archive.format, outDir, mkdir, outcome) IN
        /\ op' = "Archive::extract_to"
        /\ res' = r.res
        /\ outDir' = r.outDir
        /\ ran' = r.ran
        /\ io' = [NoIo EXCEPT !.mkdir = IF outDir THEN NoField ELSE mkdir,
                              !.pipeline = IF r.ran = NoPipeline THEN NoField ELSE outcome]
        /\ buf' = <<>>
        /\ UNCHANGED <<data, path, archive>>
        /\ UNCHANGED walkvars

---------------------------------------------------------------------------
(* extract_archive_with_format and extract_zip, one file operation a step *)

\* The entry the loop is at (entry i of the source is entries[i + 1])
EntryName(e) == e.entries[e.i + 1]

\* let out_path = output_dir.join(file.name()), archive.rs:327
OutPath(e) == path_join(e.out, EntryName(e))

\* The call returns r
Return(e, r, injected) ==
    [e EXCEPT !.pc = "done", !.res = r, !.fault = injected]

\* A mutant of Fail: the failure is noted and the walk goes on with the next
\* entry.
Fail_next(e, kind, injected) ==
    [e EXCEPT !.pc = "entry", !.fault = injected,
              !.i = IF e.i < Len(e.entries) THEN e.i + 1 ELSE e.i]

\* `?` on a failed file operation
Fail(e, kind, injected) ==
    Return(e, Err(from_io_error(IoError(kind))), injected)

\* archive.rs:231-235: the output directory is made when it is missing, then
\* the match picks the pipeline.  The steps below follow the Zip arm; the
\* other arms hand the whole walk to a library (ExtractTo).
EnsureOutDir(p) ==
    /\ ex[p].pc = "start"
    /\ dispatch(ex[p].format).unpack = "extract_zip"
    /\ \E mkdir \in {"Ok"} \cup ex[p].env :
        LET e == ex[p]
            exists == path_exists(fs, e.out)
            made == create_dir_all(fs, e.out, p, 0)
            err == IF exists THEN "Ok" ELSE IF mkdir # "Ok" THEN mkdir ELSE made.err
        IN
        /\ fs' = IF ~exists /\ mkdir = "Ok" THEN made.fs ELSE fs
        /\ ex' = [ex EXCEPT ![p] =
                    IF err = "Ok" THEN [e EXCEPT !.pc = "open"]
                    ELSE Fail(e, err, mkdir # "Ok")]
    /\ UNCHANGED callvars

\* let file = std::fs::File::open(&path)?, archive.rs:322
ZipOpen(p) ==
    /\ ex[p].pc = "open"
    /\ \E outcome \in {"Ok"} \cup ex[p].env :
        ex' = [ex EXCEPT ![p] =
                 IF outcome = "Ok" THEN [ex[p] EXCEPT !.pc = "new"]
                 ELSE Fail(ex[p], outcome, TRUE)]
    /\ UNCHANGED <<fs, callvars>>

\* let mut archive = zip::ZipArchive::new(file)?, archive.rs:323
ZipNew(p) ==
    /\ ex[p].pc = "new"
    /\ \E outcome \in {"Ok"} \cup ex[p].env :
        ex' = [ex EXCEPT ![p] =
                 IF outcome = "Ok" THEN [ex[p] EXCEPT !.pc = "entry", !.i = 0]
                 ELSE Return(ex[p], Err(from_zip_error(outcome)), TRUE)]
    /\ UNCHANGED <<fs, callvars>>

\* archive.rs:325-334: the loop head, by_index(i), and the choice of what to
\* do with the entry; Ok(()) after the last entry.
ZipEntry(p) ==
    /\ ex[p].pc = "entry"
    /\ \E outcome \in {"Ok"} \cup ex[p].env :
        LET e == ex[p] IN
        ex' = [ex EXCEPT ![p] =
                 IF e.i = Len(e.entries) THEN Return(e, Ok(Unit), e.fault)
                 ELSE IF outcome # "Ok"
                 THEN Return(e, Err(from_zip_error(outcome)), TRUE)
                 ELSE IF is_dir_marker(EntryName(e)) THEN [e EXCEPT !.pc = "mkdir"]
                 ELSE IF ~path_exists(fs, path_parent(OutPath(e)))
                 THEN [e EXCEPT !.pc = "parent"]
                 ELSE [e EXCEPT !.pc = "create"]]
    /\ UNCHANGED <<fs, callvars>>

\* std::fs::create_dir_all(&out_path)?, archive.rs:330
ZipMkdir(p) ==
    /\ ex[p].pc = "mkdir"
    /\ \E outcome \in {"Ok"} \cup ex[p].env :
        LET e == ex[p]
            made == create_dir_all(fs, OutPath(e), p, e.i + 1)
            err == IF outcome # "Ok" THEN outcome ELSE made.err
        IN
        /\ fs' = IF outcome = "Ok" THEN made.fs ELSE fs
        /\ ex' = [ex EXCEPT ![p] =
                    IF err = "Ok" THEN [e EXCEPT !.pc = "entry", !.i = e.i + 1]
                    ELSE Fail(e, err, outcome # "Ok")]
    /\ UNCHANGED callvars

\* std::fs::create_dir_all(p)?, archive.rs:335
ZipParent(p) ==
    /\ ex[p].pc = "parent"
    /\ \E outcome \in {"Ok"} \cup ex[p].env :
        LET e == ex[p]
            made == create_dir_all(fs, path_parent(OutPath(e)), p, e.i + 1)
            err == IF outcome # "Ok" THEN outcome ELSE made.err
        IN
        /\ fs' = IF outcome = "Ok" THEN made.fs ELSE fs
        /\ ex' = [ex EXCEPT ![p] =
                    IF err = "Ok" THEN [e EXCEPT !.pc = "create"]
                    ELSE Fail(e, err, outcome # "Ok")]
    /\ UNCHANGED callvars

\* let mut out_file = std::fs::File::create(&out_path)?, archive.rs:337
ZipCreate(p) ==
    /\ ex[p].pc = "create"
    /\ \E outcome \in {"Ok"} \cup ex[p].env :
        LET e == ex[p]
            made == file_create(fs, OutPath(e), p, e.i + 1)
            err == IF outcome # "Ok" THEN outcome ELSE made.err
        IN
        /\ fs' = IF outcome = "Ok" THEN made.fs ELSE fs
        /\ ex' = [ex EXCEPT ![p] =
                    IF err = "Ok" THEN [e EXCEPT !.pc = "copy"]
                    ELSE Fail(e, err, outcome # "Ok")]
    /\ UNCHANGED callvars

\* io::copy(&mut file, &mut out_file)?, archive.rs:338: a failed copy leaves
\* the file as far as it was written.
ZipCopy(p) ==
    /\ ex[p].pc = "copy"
    /\ \E outcome \in {"Ok"} \cup ex[p].env :
        LET e == ex[p] IN
        /\ fs' = IF outcome = "Ok" THEN copy_all(fs, OutPath(e), p, e.i + 1) ELSE fs
        /\ ex' = [ex EXCEPT ![p] =
                    IF outcome = "Ok" THEN [e EXCEPT !.pc = "entry", !.i = e.i + 1]
                    ELSE Fail(e, outcome, TRUE)]
    /\ UNCHANGED callvars

---------------------------------------------------------------------------
(* Calls on a tag *)

\* File stems: short ones, and short ones that end in a known suffix
TagStems == {st \o s : st \in Stems, s \in KnownSuffixes \cup {<<>>}}

\* format.mime_type() on a tag
MimeType ==
    \E t \in ArchiveFormat :
        /\ op' = "ArchiveFormat::mime_type"
        /\ archive' = [path |-> <<>>, format |-> t]
        /\ path' = <<>>
        /\ res' = mime_type(t)
        /\ io' = NoIo
        /\ buf' = <<>>
        /\ ran' = NoPipeline
        /\ UNCHANGED <<data, outDir>>
        /\ UNCHANGED walkvars

\* A file named stem + "." + format.extension(), classified by its name
ExtensionRoundTrip ==
    \E t \in ArchiveFormat, stem \in TagStems :
        LET name == stem \o <<".">> \o extension(t) IN
        /\ op' = "ArchiveFormat::extension"
        /\ archive' = [path |-> name, format |-> t]
        /\ path' = name
        /\ res' = detect_from_extension(name)
        /\ io' = NoIo
        /\ buf' = <<>>
        /\ ran' = NoPipeline
        /\ UNCHANGED <<data, outDir>>
        /\ UNCHANGED walkvars

---------------------------------------------------------------------------
(* The specifications *)

InitRest ==
    /\ op = "none"
    /\ res = NoResult
    /\ io = NoIo
    /\ buf = <<>>
    /\ archive = NoArchive
    /\ ran = NoPipeline

\* Content classification of every buffer of Buffers
InitBytes ==
    /\ data \in Buffers
    /\ path = <<>>
    /\ outDir = FALSE
    /\ InitRest
    /\ NoWalk

NextBytes == DetectFromBytes

SpecBytes == InitBytes /\ [][NextBytes]_vars

\* Extension classification of every path of Paths
InitExt ==
    /\ data = <<>>
    /\ path \in Paths
    /\ outDir = FALSE
    /\ InitRest
    /\ NoWalk

NextExt == DetectFromExtension \/ ArchiveNew

SpecExt == InitExt /\ [][NextExt]_vars

\* Files on disk, classified, opened and extracted
Init ==
    /\ data \in FileContents
    /\ path \in FilePaths
    /\ outDir \in BOOLEAN
    /\ InitRest
    /\ NoWalk

Next ==
    \/ DetectFromBytes
    \/ DetectFromExtension
    \/ DetectFromFile
    \/ ArchiveOpen
    \/ ArchiveNew
    \/ ExtractTo

Spec == Init /\ [][Next]_vars

\* The functions of every tag
InitTag ==
    /\ data = <<>>
    /\ path = <<>>
    /\ outDir = FALSE
    /\ InitRest
    /\ NoWalk

NextTag == MimeType \/ ExtensionRoundTrip

SpecTag == InitTag /\ [][NextTag]_vars

\* Most entries of a generated archive
MaxEntries == 2

\* The output directory of a single extraction, and of two side by side
OUT == << <<"o">> >>
OUT_A == << <<"A">> >>
OUT_B == << <<"B">> >>

\* An output directory one level further down: on the trees below it is
\* missing, with its parent there or missing too
OUT_DEEP == << <<"o">>, <<"n">> >>
ZipOuts == {OUT, OUT_DEEP}

\* Entry names: a file, a directory marker, a file below it, a file of the
\* marker's name without the separator, a name that steps out of the output
\* directory, an absolute name
EntryNames == { <<"f">>, <<"s", "/">>, <<"s", "/", "g">>, <<"s">>,
                <<".", ".", "/", "e">>, <<"/", "x">> }

\* The entry names of an archive are distinct: the archive reader keeps its
\* entries in a map keyed by name.
Distinct(q) == \A a, b \in 1..Len(q) : a # b => q[a] # q[b]
ZipArchives == {q \in SeqsUpTo(EntryNames, MaxEntries) : Distinct(q)}

\* What is on disk before the call: no output directory; an empty one; one
\* with a file u, a directory d and a file d/v that no entry names; the same
\* with an old file f, which an entry names.
TreeOf(dirs, files) ==
    [t \in dirs \cup files |->
        IF t \in dirs THEN DirNode(0, 0) ELSE FileNode(0, 0, TRUE)]
OldDirs == {ROOT, OUT, OUT \o << <<"d">> >>}
OldFiles == {OUT \o << <<"u">> >>, OUT \o << <<"d">>, <<"v">> >>}
OldTarget == OUT \o << <<"f">> >>
ZipTrees == { RootOnly,
              TreeOf({ROOT, OUT}, {}),
              TreeOf(OldDirs, OldFiles),
              TreeOf(OldDirs, OldFiles \cup {OldTarget}) }

\* The failures the operating system answers to a file operation that the
\* tree would let through
EnvFaults == {"PermissionDenied", "Other"}

InitCalls ==
    /\ data = <<>>
    /\ path = <<>>
    /\ outDir = FALSE
    /\ InitRest

\* One caller extracts a ZIP archive into OUT or OUT_DEEP
InitZip ==
    /\ InitCalls
    /\ fs \in ZipTrees
    /\ \E a \in ZipArchives, o \in ZipOuts :
        ex = [p \in Procs |-> IF p = 1 THEN Call("Zip", a, o, EnvFaults) ELSE Idle]

ZipStep(p) ==
    \/ EnsureOutDir(p)
    \/ ZipOpen(p)
    \/ ZipNew(p)
    \/ ZipEntry(p)
    \/ ZipMkdir(p)
    \/ ZipParent(p)
    \/ ZipCreate(p)
    \/ ZipCopy(p)

NextZip == \E p \in Procs : ZipStep(p)

SpecZip == InitZip /\ [][NextZip]_vars

\* Entry names of the two archives extracted side by side: the first may name
\* a file by way of the parent of its output directory
NamesA == { <<"f">>, <<"s", "/", "g">>, <<".", ".", "/", "B", "/", "f">> }
NamesB == { <<"f">>, <<"s", "/">> }
ArchivesA == {q \in SeqsUpTo(NamesA, MaxEntries) : Distinct(q)}
ArchivesB == {q \in SeqsUpTo(NamesB, MaxEntries) : Distinct(q)}

ParTrees == { RootOnly, TreeOf({ROOT, OUT_A, OUT_B}, {}) }

\* Two callers extract two ZIP archives into OUT_A and OUT_B, their file
\* operations interleaved in every order; the operating system fails no
\* operation the tree lets through.
InitPar ==
    /\ InitCalls
    /\ fs \in ParTrees
    /\ \E a \in ArchivesA, b \in ArchivesB :
        ex = [p \in Procs |-> IF p = 1 THEN Call("Zip", a, OUT_A, {})
                              ELSE Call("Zip", b, OUT_B, {})]

NextPar == \E p \in Procs : ZipStep(p)

SpecPar == InitPar /\ [][NextPar]_vars


---------------------------------------------------------------------------
(* The classifier's contract as the specification words it, for the claims *)

\* The signature table in its priority order: tag, pattern, byte offset of the
\* pattern and the least buffer length the rule asks for.
SignatureTable ==
    << [tag |-> "Zip", pattern |-> <<80, 75, 3, 4>>, offset |-> 0, minLen |-> 4],
       [tag |-> "TarGz", pattern |-> <<31, 139>>, offset |-> 0, minLen |-> 2],
       [tag |-> "TarXz", pattern |-> <<253, 55, 122, 88, 90, 0>>, offset |-> 0, minLen |-> 6],
       [tag |-> "TarBz2", pattern |-> <<66, 90, 104>>, offset |-> 0, minLen |-> 3],
       [tag |-> "TarZst", pattern |-> <<40, 181, 47, 253>>, offset |-> 0, minLen |-> 4],
       [tag |-> "SevenZ", pattern |-> <<55, 122, 188, 175, 39, 28>>, offset |-> 0, minLen |-> 6],
       [tag |-> "Rar", pattern |-> <<82, 97, 114, 33, 26, 7, 0>>, offset |-> 0, minLen |-> 7],
       [tag |-> "Tar", pattern |-> <<117, 115, 116, 97, 114>>, offset |-> 257, minLen |-> 265] >>

PrefixRules == 1..7
TarRule == Len(SignatureTable)

\* Rule i matches buffer d
RuleMatches(i, d) ==
    LET r == SignatureTable[i] IN
    /\ Len(d) >= r.minLen
    /\ \A k \in 1..Len(r.pattern) : d[r.offset + k] = r.pattern[k]

\* The tag of the first rule that matches d, NoFormat when none does
FirstMatch(d) ==
    IF \E i \in 1..Len(SignatureTable) : RuleMatches(i, d)
    THEN SignatureTable[CHOOSE i \in 1..Len(SignatureTable) :
                            /\ RuleMatches(i, d)
                            /\ \A j \in 1..(i - 1) : ~RuleMatches(j, d)].tag
    ELSE NoFormat

Some(f) == [tag |-> "Some", value |-> f, err |-> NoError]
None == [tag |-> "None", value |-> NoFormat, err |-> NoError]

\* d is empty or a signature with its last byte missing
OneByteShort(d) ==
    \/ d = <<>>
    \/ \E i \in PrefixRules :
          LET pat == SignatureTable[i].pattern IN
          /\ Len(d) = Len(pat) - 1
          /\ \A k \in 1..Len(d) : d[k] = pat[k]

\* The suffix list of extension classification
SuffixTable ==
    { [suffix |-> <<".", "t", "a", "r", ".", "g", "z">>, tag |-> "TarGz"],
      [suffix |-> <<".", "t", "g", "z">>, tag |-> "TarGz"],
      [suffix |-> <<".", "t", "a", "r", ".", "x", "z">>, tag |-> "TarXz"],
      [suffix |-> <<".", "t", "x", "z">>, tag |-> "TarXz"],
      [suffix |-> <<".", "t", "a", "r", ".", "b", "z", "2">>, tag |-> "TarBz2"],
      [suffix |-> <<".", "t", "b", "z", "2">>, tag |-> "TarBz2"],
      [suffix |-> <<".", "t", "a", "r", ".", "z", "s", "t">>, tag |-> "TarZst"],
      [suffix |-> <<".", "t", "a", "r">>, tag |-> "Tar"],
      [suffix |-> <<".", "z", "i", "p">>, tag |-> "Zip"],
      [suffix |-> <<".", "7", "z">>, tag |-> "SevenZ"],
      [suffix |-> <<".", "r", "a", "r">>, tag |-> "Rar"] }

LowerAll(s) == [i \in 1..Len(s) |-> char_to_lowercase(s[i])]

\* p ends in suffix, letter case aside
EndsIn(p, suffix) ==
    /\ Len(suffix) <= Len(p)
    /\ \A k \in 1..Len(suffix) :
          char_to_lowercase(p[Len(p) - Len(suffix) + k]) = suffix[k]

UnsupportedFormat == Err(MkError("Unsupported", NoField, NoField, NoField, NoField, "format"))

BytesCall == op = "detect_from_bytes"
ExtCall == op \in {"detect_from_extension", "Archive::new"}
FileCall == op \in {"detect_from_file", "Archive::open"}
FileRead == FileCall /\ io.open = "Ok" /\ io.read = "Ok"

---------------------------------------------------------------------------
(* The claims *)

\* C1: content classification returns the tag of the first rule of the
\* signature table that matches the buffer, the rules tried in the order ZIP,
\* GZIP, XZ, BZIP2, Zstandard, 7-Zip, RAR, plain container, and returns no
\* match exactly when no rule matches; a buffer with a prefix signature and
\* "ustar" at offset 257 gets the prefix signature's tag.
C1_FirstRuleWins ==
    BytesCall =>
        /\ res = (IF FirstMatch(data) = NoFormat THEN None ELSE Some(FirstMatch(data)))
        /\ (res = None <=> \A i \in 1..Len(SignatureTable) : ~RuleMatches(i, data))
        /\ \A i \in PrefixRules :
              RuleMatches(i, data) /\ RuleMatches(TarRule, data)
                  => res = Some(SignatureTable[i].tag)

C1_Witness ==
    /\ BytesCall
    /\ RuleMatches(2, data)
    /\ RuleMatches(TarRule, data)
    /\ res = Some("TarGz")

\* C2 as claimed: a buffer carrying any of the eight signatures, whatever its
\* other bytes are, classifies to that signature's tag.
C2_EverySignatureOwnTag ==
    BytesCall =>
        \A i \in 1..Len(SignatureTable) :
            RuleMatches(i, data) => res = Some(SignatureTable[i].tag)

\* C2 as amended: a buffer that starts with one of the seven prefix signatures
\* classifies to that signature's tag whatever its other bytes are, and no
\* buffer starts with two of them; a buffer of at least 265 bytes with "ustar"
\* at offset 257 classifies to the plain container exactly when it starts with
\* none of the seven prefix signatures.
C2_PrefixSignatureOwnTag ==
    BytesCall =>
        /\ \A i \in PrefixRules :
              RuleMatches(i, data) => res = Some(SignatureTable[i].tag)
        /\ \A i, j \in PrefixRules :
              RuleMatches(i, data) /\ RuleMatches(j, data) => i = j
        /\ RuleMatches(TarRule, data) =>
              (res = Some("Tar") <=> \A i \in PrefixRules : ~RuleMatches(i, data))

C2_Witness ==
    /\ BytesCall
    /\ RuleMatches(5, data)
    /\ Len(data) > 4
    /\ data[5] # FILL
    /\ res = Some("TarZst")

\* C3: content classification of the empty buffer and of a signature one byte
\* short is "no match", never an abort; file classification that read such
\* bytes returns what extension classification returns.
C3_ShortBufferNoMatch ==
    /\ BytesCall /\ OneByteShort(data) => res = None
    /\ FileRead /\ OneByteShort(buf) =>
          res = (IF \E s \in SuffixTable : EndsIn(path, s.suffix)
                 THEN Ok((CHOOSE s \in SuffixTable : EndsIn(path, s.suffix)).tag)
                 ELSE UnsupportedFormat)

C3_Witness ==
    /\ FileRead
    /\ buf = <<253, 55, 122, 88, 90>>
    /\ res = Ok("Zip")

\* C4: the plain-container rule never matches a buffer shorter than 265 bytes
\* and never reads past the end of the buffer; when no prefix signature
\* matches, the buffer classifies as plain container if and only if it is at
\* least 265 bytes long and bytes 257..261 are "ustar".
C4_TarRuleBounds ==
    BytesCall =>
        /\ res.tag # Panic
        /\ Len(data) < 265 => res # Some("Tar")
        /\ (\A i \in PrefixRules : ~RuleMatches(i, data)) =>
              (res = Some("Tar") <=>
                  /\ Len(data) >= 265
                  /\ \A k \in 1..5 : data[257 + k] = SignatureTable[TarRule].pattern[k])

C4_Witness ==
    /\ BytesCall
    /\ Len(data) = 264
    /\ \A k \in 1..5 : data[257 + k] = SignatureTable[TarRule].pattern[k]
    /\ \A i \in PrefixRules : ~RuleMatches(i, data)
    /\ res = None

\* C5: file classification of a readable file classifies the n <= 512 bytes the
\* read returned; a content match is the result whatever the extension says,
\* the extension's result is returned only when the content matched nothing,
\* and the unsupported-format error is returned exactly when both fail.
C5_ContentBeforeExtension ==
    FileRead =>
        LET content == FirstMatch(buf)
            known == \E s \in SuffixTable : EndsIn(path, s.suffix)
        IN
        /\ Len(buf) <= 512
        /\ buf = SubSeq(data, 1, Len(buf))
        /\ content # NoFormat => res = Ok(content)
        /\ content = NoFormat /\ known =>
              res = Ok((CHOOSE s \in SuffixTable : EndsIn(path, s.suffix)).tag)
        /\ res = UnsupportedFormat <=> content = NoFormat /\ ~known
        /\ res.tag \in {"Ok", "Err"}
        /\ op = "Archive::open" =>
              archive = (IF res.tag = "Ok" THEN [path |-> path, format |-> res.value]
                         ELSE NoArchive)

C5_Witness ==
    /\ op = "Archive::open"
    /\ io.open = "Ok" /\ io.read = "Ok"
    /\ FirstMatch(buf) = "TarGz"
    /\ EndsIn(path, <<".", "z", "i", "p">>)
    /\ archive.format = "TarGz"

\* C6: a failed open or read during file classification is returned as the
\* I/O-error kind with the operation's context string, never as the
\* unsupported-format kind, whatever the kind of the underlying failure.
C6_IoFailureKeepsContext ==
    FileCall /\ (io.open \in IoErrorKind \/ io.read \in IoErrorKind) =>
        /\ res.tag = "Err"
        /\ res.err.variant = "Io"
        /\ res.err.context # NoField
        /\ res.err.variant # "Unsupported"

\* C7: extension classification gives the same outcome for a path and for
\* every re-casing of its letters.
C7_CaseInsensitive ==
    ExtCall =>
        \A ups \in SUBSET (1..Len(path)) :
            detect_from_extension(UpperAt(LowerAll(path), ups)) = res

C7_Witness ==
    /\ ExtCall
    /\ path = <<"a", ".", "T", "A", "R", ".", "G", "Z">>
    /\ res = Ok("TarGz")

\* C8: a path ending in .tar.gz/.tgz, .tar.xz/.txz, .tar.bz2/.tbz2 or .tar.zst
\* classifies to the matching compressed-container tag, never to the plain
\* container; a path classifies as plain container only when it ends in ".tar".
C8_CompoundSuffixFirst ==
    ExtCall =>
        /\ \A s \in SuffixTable :
              s.tag \in {"TarGz", "TarXz", "TarBz2", "TarZst"} /\ EndsIn(path, s.suffix)
                  => res = Ok(s.tag)
        /\ res = Ok("Tar") => EndsIn(path, <<".", "t", "a", "r">>)

C8_Witness ==
    /\ ExtCall
    /\ EndsIn(path, <<".", "t", "a", "r", ".", "b", "z", "2">>)
    /\ res = Ok("TarBz2")

\* C9: extension classification of a path that ends in no known suffix fails
\* with the unsupported-format error, and Archive::new builds no handle for it.
C9_UnknownSuffixUnsupported ==
    ExtCall /\ (\A s \in SuffixTable : ~EndsIn(path, s.suffix)) =>
        /\ res = UnsupportedFormat
        /\ op = "Archive::new" => archive = NoArchive

C9_Witness ==
    /\ op = "Archive::new"
    /\ EndsIn(path, <<".", "x", "y", "z">>)
    /\ res = UnsupportedFormat
    /\ archive = NoArchive

\* C10: extraction dispatched on a tag with no pipeline (RAR) returns an
\* unsupported-feature error.
C10_RarUnsupportedFeature ==
    op = "Archive::extract_to" /\ archive.format = "Rar" /\ outDir =>
        /\ res.tag = "Err"
        /\ res.err.variant = "Unsupported"

---------------------------------------------------------------------------
(* Extraction: what the claims speak of *)

IsPrefix(a, b) == Len(a) <= Len(b) /\ SubSeq(b, 1, Len(a)) = a

\* The name ends with the path separator
EndsWithSep(name) == Len(name) > 0 /\ name[Len(name)] = "/"

\* Where entry k (counted from 1) of call e lands: output_dir joined with the
\* entry's name, as the operating system resolves it
Target(e, k) == Resolve(path_join(e.out, e.entries[k]))

\* t is the place of an entry of call e, or lies above or below one
Related(e, t) ==
    \E k \in 1..Len(e.entries) : IsPrefix(t, Target(e, k)) \/ IsPrefix(Target(e, k), t)

Unrelated(t) == \A p \in Procs : ~Related(ex[p], t)

\* Two entries of the archive cannot both be extracted: one is a file and the
\* other is that name as a directory, or lies below it
NameClash(q) ==
    \E a, b \in 1..Len(q) :
        a # b /\ ~EndsWithSep(q[a]) /\ IsPrefix(Components(q[a]), Components(q[b]))

\* The call of caller p has returned
Returned(p) == ex[p].pc = "done"

\* The walk of caller p has finished entry k
Finished(p, k) == ex[p].pc \in {"entry", "mkdir", "parent", "create", "copy", "done"} /\ k <= ex[p].i

\* C11: extraction into an output directory that is there already, with files
\* no entry names, does not fail for that (it returns Ok unless the operating
\* system fails an operation or two entries clash); every step leaves every
\* file and directory that no entry names as it was; and when the output
\* directory exists, ensuring it changes nothing and goes on.
C11_MergeNotWipe ==
    /\ [](\A p \in Procs :
            Returned(p) /\ ~ex[p].fault /\ ~NameClash(ex[p].entries)
                => ex[p].res = Ok(Unit))
    /\ [][\A t \in DOMAIN fs : Unrelated(t) => t \in DOMAIN fs' /\ fs'[t] = fs[t]]_vars
    /\ [][\A p \in Procs :
            ex[p].pc = "start" /\ path_exists(fs, ex[p].out) /\ ex'[p] # ex[p]
                => fs' = fs /\ ex'[p].pc = "open"]_vars

C11_Witness ==
    /\ Returned(1)
    /\ ex[1].res = Ok(Unit)
    /\ ex[1].entries = << <<"f">> >>
    /\ IsFile(fs, OldTarget) /\ fs[OldTarget].by = 1 /\ fs[OldTarget].full
    /\ \A t \in OldFiles : IsFile(fs, t) /\ fs[t].by = 0

\* The file of entry k of caller p is on disk, whole
Extracted(p, k) ==
    LET t == Target(ex[p], k) IN
    IsFile(fs, t) /\ fs[t].full /\ fs[t].by = p /\ fs[t].idx = k

\* C12: no extraction makes or writes a file or directory outside its
\* output_dir: what a caller made lies at or below its output directory.
C12_NothingOutsideOutputDir ==
    \A t \in DOMAIN fs :
        fs[t].by \in Procs => IsPrefix(ex[fs[t].by].out, t)

\* C13: when the operating system fails a file operation the call returns the
\* error at once: the failing step writes nothing and moves to no other entry,
\* no entry after the failing one has left a trace, the files of the entries
\* before it are on disk whole, and nothing changes after the return.
C13_FailureStopsAtEntry ==
    /\ [](\A p \in Procs :
            /\ ex[p].fault => Returned(p) /\ ex[p].res.tag = "Err"
            /\ \A t \in DOMAIN fs :
                  fs[t].by = p => fs[t].idx <= Min(ex[p].i + 1, Len(ex[p].entries))
            /\ Returned(p) /\ ex[p].res.tag = "Err" =>
                  \A k \in 1..ex[p].i :
                      ~EndsWithSep(ex[p].entries[k]) => Extracted(p, k))
    /\ [][\A p \in Procs :
            /\ ~Returned(p) /\ ex'[p].pc = "done" /\ ex'[p].res.tag = "Err"
                  => fs' = fs /\ ex'[p].i = ex[p].i
            /\ Returned(p) => ex'[p] = ex[p] /\ fs' = fs]_vars

C13_Witness ==
    /\ Returned(1)
    /\ ex[1].fault
    /\ ex[1].res.tag = "Err"
    /\ ex[1].entries = << <<"f">>, <<"s", "/", "g">> >>
    /\ ex[1].i = 1
    /\ Extracted(1, 1)
    /\ ~path_exists(fs, Target(ex[1], 2))

\* C14: an entry whose name ends with the separator is a directory marker:
\* once the walk is past it, output_dir/name is a directory and no file was
\* made for the entry.
C14_DirectoryMarker ==
    \A p \in Procs : \A k \in 1..Len(ex[p].entries) :
        Finished(p, k) /\ EndsWithSep(ex[p].entries[k]) =>
            /\ IsDir(fs, Target(ex[p], k))
            /\ \A t \in DOMAIN fs : ~(IsFile(fs, t) /\ fs[t].by = p /\ fs[t].idx = k)

C14_Witness ==
    /\ Returned(1)
    /\ ex[1].res = Ok(Unit)
    /\ ex[1].entries = << <<"s", "/">> >>
    /\ IsDir(fs, OUT \o << <<"s">> >>)
    /\ \A t \in DOMAIN fs : IsPrefix(OUT, t) => t \in {OUT, OUT \o << <<"s">> >>}

\* C15: the four kinds of failure of a file operation come back as four
\* different errors, and every one of them carries the description of the
\* operation and the kind of the failure.
C15_IoFailureKindsKeepContext ==
    /\ \A a, b \in IoErrorKind :
          a # b => from_io_error(IoError(a)) # from_io_error(IoError(b))
    /\ \A p \in Procs :
          Returned(p) /\ ex[p].fault =>
              /\ ex[p].res.tag = "Err"
              /\ ex[p].res.err.context # NoField
              /\ ex[p].res.err.kind \in IoErrorKind

\* C16: mime_type returns a value for every tag and never panics.
C16_MimeTypeTotal ==
    op = "ArchiveFormat::mime_type" =>
        /\ archive.format \in ArchiveFormat
        /\ res.tag = "Ok"

\* C17: no two tags have the same extension, and a file named with a tag's
\* extension after any stem is classified by name to that very tag.
C17_ExtensionBijection ==
    /\ \A a, b \in ArchiveFormat : extension(a) = extension(b) => a = b
    /\ op = "ArchiveFormat::extension" => res = Ok(archive.format)

C17_Witness ==
    /\ op = "ArchiveFormat::extension"
    /\ archive.format = "Tar"
    /\ path = <<"a", ".", "z", "i", "p", ".", "t", "a", "r">>
    /\ res = Ok("Tar")

\* C18: of two extractions into different output directories, run side by
\* side, neither makes or writes anything at or below the other's output
\* directory.
C18_NoInterference ==
    \A p, q \in Procs : \A t \in DOMAIN fs :
        p # q /\ fs[t].by = p /\ ex[q].pc # "idle" => ~IsPrefix(ex[q].out, t)

\* The dispatch table: the decompression stage and the walk of every tag
\* that has a pipeline
PipelineTable ==
    [t \in {"Zip", "Tar", "TarGz", "TarXz", "TarBz2", "TarZst", "SevenZ"} |->
        CASE t = "Zip" -> [decoder |-> "none", unpack |-> "extract_zip"]
          [] t = "Tar" -> [decoder |-> "none", unpack |-> "extract_tar"]
          [] t = "TarGz" -> [decoder |-> "GzDecoder", unpack |-> "extract_tar"]
          [] t = "TarXz" -> [decoder |-> "XzDecoder", unpack |-> "extract_tar"]
          [] t = "TarBz2" -> [decoder |-> "BzDecoder", unpack |-> "extract_tar"]
          [] t = "TarZst" -> [decoder |-> "zstd::Decoder", unpack |-> "extract_tar"]
          [] t = "SevenZ" -> [decoder |-> "none", unpack |-> "extract_7z"]]

ExtractCall == op = "Archive::extract_to"

C20_IndexOrderLazyParents ==
    /\ [](\A p \in Procs :
            /\ ex[p].pc = "start" => ex[p].i = 0
            /\ Returned(p) /\ ex[p].res.tag = "Err"
                  => ex[p].fault \/ NameClash(ex[p].entries)
            /\ Returned(p) /\ ex[p].res = Ok(Unit) =>
                  /\ ex[p].i = Len(ex[p].entries)
                  /\ \A k \in 1..Len(ex[p].entries) :
                        ~EndsWithSep(ex[p].entries[k]) =>
                            /\ Extracted(p, k)
                            /\ \A d \in Prefixes(Target(ex[p], k)) \ {Target(ex[p], k)} :
                                  IsDir(fs, d))
    /\ [][\A p \in Procs :
            /\ ex'[p].i \in {ex[p].i, ex[p].i + 1}
            /\ \A t \in DOMAIN fs' :
                  (t \notin DOMAIN fs \/ fs'[t] # fs[t]) /\ fs'[t].by = p /\ fs'[t].idx # 0
                      => fs'[t].idx = ex[p].i + 1]_vars

C20_Witness ==
    /\ Returned(1)
    /\ ex[1].res = Ok(Unit)
    /\ ex[1].entries = << <<"s", "/", "g">>, <<"s", "/">> >>
    /\ Extracted(1, 1)
    /\ IsDir(fs, OUT \o << <<"s">> >>)
    /\ fs[OUT \o << <<"s">> >>].idx = 1

\* The call of caller p is past the directory step and has not returned
PastDirStep(p) == ex[p].pc \in {"open", "new", "entry", "mkdir", "parent", "create", "copy"}

\* output_dir of caller p and every directory above it are on disk
OutDirInPlace(f, p) == \A d \in Prefixes(ex[p].out) : IsDir(f, d)

\* C21: output_dir, with its missing parents, is made before the source is
\* opened, and a call that fails from there on (source not opened, archive not
\* read, an entry failing) returns with output_dir on disk.
C21_OutputDirBeforeSource ==
    /\ [](\A p \in Procs : PastDirStep(p) => OutDirInPlace(fs, p))
    /\ [][\A p \in Procs :
            PastDirStep(p) /\ ex'[p].pc = "done" => OutDirInPlace(fs', p)]_vars

C21_Witness ==
    /\ Returned(1)
    /\ ex[1].fault
    /\ ex[1].res.tag = "Err"
    /\ ex[1].out = OUT_DEEP
    /\ ex[1].entries = << <<"f">> >>
    /\ ex[1].i = 0
    /\ IsDir(fs, OUT_DEEP) /\ fs[OUT_DEEP].by = 1
    /\ fs[path_parent(OUT_DEEP)].by = 1
    /\ \A t \in DOMAIN fs : IsPrefix(OUT_DEEP, t) => t = OUT_DEEP

=============================================================================
